---- MODULE Spec2Model ----
(***************************************************************************)
(* Model of the streaming resilience layer of simulator-ui-js:             *)
(*   - SSEClient (src/infrastructure/utils/sse-client.ts): connection      *)
(*     life cycle, reconnection with a bounded budget, connection timeout  *)
(*     guard, subscription registry and dispatch;                          *)
(*   - the adapter subscription pattern (rest-market-data, rest-trading,   *)
(*     rest-risk-monitor: subscribeToXUpdates).                            *)
(*                                                                         *)
(* Methods of the client are operators from worlds to worlds (a world is   *)
(* the record of the client's fields, of the transports it created and of  *)
(* the timers it armed), composed exactly as the methods call one another. *)
(* Every callback of the event loop (a transport event, a timer expiry)    *)
(* and every public call is one action.  Time is abstracted: an armed      *)
(* timer may expire at any later step.                                     *)
(***************************************************************************)
EXTENDS Integers, Sequences, FiniteSets, TLC

\* ---------------------------------------------------------------- bounds
MaxAttemptsOption == 3     \* maxReconnectAttempts ranges over 0..MaxAttemptsOption
MaxTransports == 4         \* transports (EventSource objects) created per client
MaxConnects == 2           \* calls of connect() per client
MaxInflight == 1           \* poll requests awaiting their response at a time

\* ------------------------------------------------------------- vocabulary
Null == 0
DefaultEvent == "message"
\* The subscriptions of the adapters, each with the event type of its single
\* updates and the event type of its batches.
Adapters == {"prices", "positions", "orders", "risk"}
SingleEvent ==
  [a \in Adapters |->
     IF a = "prices" THEN "price"
     ELSE IF a = "positions" THEN "position"
     ELSE IF a = "orders" THEN "order" ELSE "risk_update"]
BatchEvent ==
  [a \in Adapters |->
     IF a = "prices" THEN "prices"
     ELSE IF a = "positions" THEN "positions"
     ELSE IF a = "orders" THEN "orders" ELSE "metrics"]
EventTypes ==
  {DefaultEvent} \cup {SingleEvent[a] : a \in Adapters} \cup {BatchEvent[a] : a \in Adapters}
RegistryTypes == {DefaultEvent, "price"}   \* the types callers subscribe to by hand
\* the calls of on() made by hand: two handlers share a type, one handler has two types
Subscriptions == {<<DefaultEvent, "h1">>, <<"price", "h1">>, <<"price", "h2">>}
Handlers == {"h1", "h2"}
ErrorKinds == {"connection", "timeout", "create", "max", "parse"}
NoReports == [k \in ErrorKinds |-> 0]
\* What the hooks registered with onError, onOpen and onClose do when they are
\* called: return, call disconnect() on the client, or throw.
NoHooks == [error |-> "return", open |-> "return", close |-> "return"]
ErrorHooks == {"return", "disconnect", "throw"}
OpenHooks == {"return", "throw"}
CloseHooks == {"return", "disconnect", "throw"}
HookBehaviours == [error : ErrorHooks, open : OpenHooks, close : CloseHooks]
PollInterval == 5000

\* Options of the client: the defaults of the constructor, and the values a
\* caller configures.  The jitter is Math.random() * 1000, a value in [0, 1000).
DefaultReconnectDelay == 1000
DefaultMaxReconnectDelay == 30000
ReconnectDelays == {100, DefaultReconnectDelay, 2000}
MaxReconnectDelays == {3000, DefaultMaxReconnectDelay}
JitterRange == 1000
Jitters == {0, 500, JitterRange - 1}
EmptyMap == [e \in {} |-> <<>>]

\* Bodies of frames as the server sends them: the text of a JSON object (it
\* stands for an object of the shape the event type of the frame carries),
\* the JSON text null, and a text that is not JSON.
BodyObject == "{\"asset\":\"BTC\",\"data\":{}}"
BodyNull == "null"
BodyText == "hello"
Bodies == {BodyObject, BodyNull, BodyText}
NoEnvelope == [event |-> "", data |-> [type |-> "none"]]

VARIABLES
  \* fields of SSEClient
  eventSource,            \* id of the transport held, Null when none
  reconnectAttempts,
  reconnectTimer,         \* TRUE when this.reconnectTimer holds a pending timer
  isManuallyDisconnected,
  messageHandlers,        \* function: registered event type -> handlers, in insertion order
  handles,                \* unsubscribe closures returned by on() and not yet invoked: <<type, handler>>
  spent,                  \* unsubscribe closures that have been invoked
  maxReconnectAttempts,   \* options.maxReconnectAttempts
  reconnectDelay,         \* options.reconnectDelay
  maxReconnectDelay,      \* options.maxReconnectDelay
  hooks,                  \* what the error, open and close hooks registered do
  unsubscribers,          \* <<a, b>>: handler a, when it is called, invokes the unsubscribe closure of b
  \* the environment the client acts on
  readyState,             \* sequence: transport id -> state of that transport
  listeners,              \* sequence: transport id -> event types with addEventListener
  guard,                  \* transports whose connection-timeout timer is pending
  leaked,                 \* pending reconnect timers no longer held in reconnectTimer
  ctorThrows,             \* TRUE when new EventSource(url) throws for this url
  jitter,                 \* what Math.random() * 1000 yields when it is called next
  delay,                  \* delay of the reconnect timer armed last since the latest open, 0 when none
  \* what the latest call or callback made observable
  reported,               \* error kind -> reports to the error hooks
  scheduled,              \* reconnect timers armed
  delivered,              \* handler -> envelopes received
  envelope,               \* the envelope handed to the handlers
  thrown,                 \* TRUE when the call or callback ended with an exception
  callbacks,              \* invocations of the subscriber callback onUpdate
  \* the adapter subscription built on the client
  mode,                   \* "none" | "stream" | "polling"
  adapter,                \* the subscription made: "none" or one of Adapters
  cleaned,                \* TRUE once the cleanup function has been called
  poller,                 \* TRUE when the setInterval of the fallback poller is active
  inflight,               \* poll requests issued whose response has not arrived
  \* history of the run
  connectCalls,           \* calls of connect()
  opened,                 \* TRUE once a transport has reached OPEN
  disconnected,           \* TRUE once disconnect() has been called
  failures,               \* failed attempts: fatal errors, timeouts, failed constructions
  terminals,              \* reports of the terminal 'max attempts' error
  last                    \* the latest call or callback

clientVars == <<eventSource, reconnectAttempts, reconnectTimer,
                isManuallyDisconnected, messageHandlers, handles, spent,
                maxReconnectAttempts, reconnectDelay, maxReconnectDelay, hooks,
                unsubscribers>>
envVars == <<readyState, listeners, guard, leaked, ctorThrows, jitter, delay>>
obsVars == <<reported, scheduled, delivered, envelope, thrown, callbacks>>
adapterVars == <<mode, adapter, cleaned, poller, inflight>>
histVars == <<connectCalls, opened, disconnected, failures, terminals, last>>
vars == <<clientVars, envVars, obsVars, adapterVars, histVars>>

\* EventSource.CONNECTING covers a transport that has not been open yet
\* ("connecting") and one that lost its connection and is re-establishing it
\* ("reconnecting"); the client reads the same readyState for both.
IsConnecting(state) == state \in {"connecting", "reconnecting"}

\* The world the methods of the client read and write, as a call or callback
\* finds it: nothing reported, scheduled or delivered yet.
World ==
  [ eventSource |-> eventSource, reconnectAttempts |-> reconnectAttempts,
    reconnectTimer |-> reconnectTimer,
    isManuallyDisconnected |-> isManuallyDisconnected,
    messageHandlers |-> messageHandlers, handles |-> handles, spent |-> spent,
    maxReconnectAttempts |-> maxReconnectAttempts,
    reconnectDelay |-> reconnectDelay, maxReconnectDelay |-> maxReconnectDelay,
    hooks |-> hooks, unsubscribers |-> unsubscribers,
    jitter |-> jitter, delay |-> delay,
    readyState |-> readyState, listeners |-> listeners, guard |-> guard,
    leaked |-> leaked, ctorThrows |-> ctorThrows,
    reported |-> NoReports, scheduled |-> 0,
    delivered |-> [h \in Handlers |-> 0],
    envelope |-> NoEnvelope, thrown |-> FALSE ]

Set(w) ==
  /\ eventSource' = w.eventSource
  /\ reconnectAttempts' = w.reconnectAttempts
  /\ reconnectTimer' = w.reconnectTimer
  /\ isManuallyDisconnected' = w.isManuallyDisconnected
  /\ messageHandlers' = w.messageHandlers
  /\ handles' = w.handles
  /\ spent' = w.spent
  /\ maxReconnectAttempts' = w.maxReconnectAttempts
  /\ reconnectDelay' = w.reconnectDelay
  /\ maxReconnectDelay' = w.maxReconnectDelay
  /\ hooks' = w.hooks
  /\ unsubscribers' = w.unsubscribers
  /\ jitter' = w.jitter
  /\ delay' = w.delay
  /\ readyState' = w.readyState
  /\ listeners' = w.listeners
  /\ guard' = w.guard
  /\ leaked' = w.leaked
  /\ ctorThrows' = w.ctorThrows
  /\ reported' = w.reported
  /\ scheduled' = w.scheduled
  /\ delivered' = w.delivered
  /\ envelope' = w.envelope
  /\ thrown' = w.thrown
  /\ terminals' = terminals + w.reported["max"]

\* ------------------------------------------------------ methods of SSEClient

\* clearReconnectTimer: clearTimeout(this.reconnectTimer); this.reconnectTimer = null
clearReconnectTimer(w) == [w EXCEPT !.reconnectTimer = FALSE]

RECURSIVE cleanup(_)

disconnect(w) == cleanup([w EXCEPT !.isManuallyDisconnected = TRUE])

\* this.closeHandlers.forEach(handler => handler()): the hooks are called
\* without a try block.
closeHook(w) ==
  IF w.hooks.close = "disconnect" THEN disconnect(w)
  ELSE IF w.hooks.close = "throw" THEN [w EXCEPT !.thrown = TRUE]
  ELSE w

\* cleanup: close and drop the transport held and run the close hooks, then
\* clear the reconnect timer; an exception of a close hook ends cleanup before
\* the timer is cleared.  The connection-timeout timer is not touched.
cleanup(w) ==
  IF w.eventSource # Null
  THEN LET w1 == closeHook([w EXCEPT !.readyState[w.eventSource] = "closed",
                                     !.eventSource = Null])
       IN IF w1.thrown THEN w1 ELSE clearReconnectTimer(w1)
  ELSE clearReconnectTimer(w)

\* handleError: the error is handed to every error hook, each one inside a
\* try block that logs what the hook throws.
handleError(w, kind) ==
  LET w1 == [w EXCEPT !.reported[kind] = @ + 1]
  IN IF w.hooks.error = "disconnect"
     THEN [disconnect(w1) EXCEPT !.thrown = w.thrown]
     ELSE w1

Min(a, b) == IF a <= b THEN a ELSE b

\* The delay without the cap of maxReconnectDelay.
backoffDelay_noCap(base, cap, attempt, random) == base * 2 ^ (attempt - 1) + random

\* The delay of the reconnect timer: exponential backoff with jitter, capped:
\* Math.min(reconnectDelay * Math.pow(2, attempt - 1) + jitter, maxReconnectDelay)
backoffDelay(base, cap, attempt, random) ==
  Min(base * 2 ^ (attempt - 1) + random, cap)

\* scheduleReconnect with the budget test written > instead of >=.
scheduleReconnect_offByOne(w) ==
  IF w.isManuallyDisconnected THEN w
  ELSE IF w.reconnectAttempts > w.maxReconnectAttempts
       THEN handleError(w, "max")
       ELSE [w EXCEPT !.reconnectAttempts = @ + 1,
                      !.leaked = @ + (IF w.reconnectTimer THEN 1 ELSE 0),
                      !.reconnectTimer = TRUE,
                      !.delay = backoffDelay(w.reconnectDelay, w.maxReconnectDelay,
                                             w.reconnectAttempts + 1, w.jitter),
                      !.scheduled = @ + 1]

\* scheduleReconnect without the return that follows the terminal report.
scheduleReconnect_noReturn(w) ==
  IF w.isManuallyDisconnected THEN w
  ELSE LET w1 == IF w.reconnectAttempts >= w.maxReconnectAttempts
                 THEN handleError(w, "max") ELSE w
       IN [w1 EXCEPT !.reconnectAttempts = @ + 1,
                     !.leaked = @ + (IF w.reconnectTimer THEN 1 ELSE 0),
                     !.reconnectTimer = TRUE,
                     !.delay = backoffDelay(w.reconnectDelay, w.maxReconnectDelay,
                                            w.reconnectAttempts + 1, w.jitter),
                     !.scheduled = @ + 1]

\* scheduleReconnect without the test of isManuallyDisconnected.
scheduleReconnect_ignoreManual(w) ==
  IF w.reconnectAttempts >= w.maxReconnectAttempts
  THEN handleError(w, "max")
  ELSE [w EXCEPT !.reconnectAttempts = @ + 1,
                 !.leaked = @ + (IF w.reconnectTimer THEN 1 ELSE 0),
                 !.reconnectTimer = TRUE,
                 !.delay = backoffDelay(w.reconnectDelay, w.maxReconnectDelay,
                                        w.reconnectAttempts + 1, w.jitter),
                 !.scheduled = @ + 1]

\* scheduleReconnect: nothing after a manual disconnect; the terminal error
\* once the budget is used up; otherwise count the attempt and arm the timer
\* with the delay of that attempt.
\* this.reconnectTimer is overwritten: a timer still pending in it stays
\* armed but is no longer held.
scheduleReconnect(w) ==
  IF w.isManuallyDisconnected THEN w
  ELSE IF w.reconnectAttempts >= w.maxReconnectAttempts
       THEN handleError(w, "max")
       ELSE [w EXCEPT !.reconnectAttempts = @ + 1,
                      !.leaked = @ + (IF w.reconnectTimer THEN 1 ELSE 0),
                      !.reconnectTimer = TRUE,
                      !.delay = backoffDelay(w.reconnectDelay, w.maxReconnectDelay,
                                             w.reconnectAttempts + 1, w.jitter),
                      !.scheduled = @ + 1]

\* setupEventHandlers: onopen, onerror, onmessage, and one listener per event
\* type registered at this moment, the default type excepted.
setupEventHandlers(w) ==
  [w EXCEPT !.listeners[w.eventSource] = DOMAIN w.messageHandlers \ {DefaultEvent}]

\* setupConnectionTimeout: arm the one-shot timer of this attempt.
setupConnectionTimeout(w) == [w EXCEPT !.guard = @ \cup {w.eventSource}]

\* createEventSource without its try/catch.
createEventSource_noCatch(w) ==
  IF w.ctorThrows
  THEN [w EXCEPT !.thrown = TRUE]
  ELSE LET t == Len(w.readyState) + 1
           w1 == [w EXCEPT !.readyState = Append(@, "connecting"),
                           !.listeners = Append(@, {}),
                           !.eventSource = t]
       IN setupConnectionTimeout(setupEventHandlers(w1))

\* createEventSource: new EventSource(url) either throws (the failure is
\* reported and a reconnect scheduled) or yields a transport in CONNECTING,
\* which replaces whatever this.eventSource held.
createEventSource(w) ==
  IF w.ctorThrows
  THEN scheduleReconnect(handleError(w, "create"))
  ELSE LET t == Len(w.readyState) + 1
           w1 == [w EXCEPT !.readyState = Append(@, "connecting"),
                           !.listeners = Append(@, {}),
                           !.eventSource = t]
       IN setupConnectionTimeout(setupEventHandlers(w1))

\* connect without the test of this.eventSource.
connect_always(w) == createEventSource([w EXCEPT !.isManuallyDisconnected = FALSE])

connect(w) ==
  IF w.eventSource # Null THEN w
  ELSE createEventSource([w EXCEPT !.isManuallyDisconnected = FALSE])

\* this.openHandlers.forEach(handler => handler()): the hooks are called
\* without a try block.
openHook(w) == IF w.hooks.open = "throw" THEN [w EXCEPT !.thrown = TRUE] ELSE w

\* onopen without the reset of the attempt counter.
onopen_noReset(w) == openHook(clearReconnectTimer(w))

\* eventSource.onopen
onopen(w) == openHook(clearReconnectTimer([w EXCEPT !.reconnectAttempts = 0]))

\* An 'open' listener that does not clear the timeout.
clearTimeoutHandler_noop(w, t) == w

\* clearTimeoutHandler, the 'open' listener of transport t: clearTimeout(timeout)
clearTimeoutHandler(w, t) == [w EXCEPT !.guard = @ \ {t}]

\* eventSource.onerror: it consults the transport the client holds now.
onerror(w) ==
  LET w1 == handleError(w, "connection")
  IN IF w1.eventSource # Null /\ w1.readyState[w1.eventSource] = "closed"
     THEN LET w2 == cleanup(w1)
          IN IF w2.thrown \/ w2.isManuallyDisconnected THEN w2
             ELSE scheduleReconnect(w2)
     ELSE w1

\* The timeout callback without the test of readyState.
timeoutCallback_unchecked(w) ==
  LET w1 == cleanup(handleError(w, "timeout"))
  IN IF w1.thrown THEN w1 ELSE scheduleReconnect(w1)

\* the callback of the connection-timeout timer; an exception of cleanup ends
\* it before scheduleReconnect.
timeoutCallback(w) ==
  IF w.eventSource # Null /\ IsConnecting(w.readyState[w.eventSource])
  THEN LET w1 == cleanup(handleError(w, "timeout"))
       IN IF w1.thrown THEN w1 ELSE scheduleReconnect(w1)
  ELSE w

\* the callback of the reconnect timer
reconnectCallback(w) == createEventSource([w EXCEPT !.reconnectTimer = FALSE])

\* The elements of a Set kept in insertion order, and the Set without one.
Members(seq) == {seq[i] : i \in DOMAIN seq}

Without(seq, h) == SelectSeq(seq, LAMBDA x : x # h)

\* on(event, handler): register the handler (Set.add keeps the place of a
\* handler already there); no listener is added to a transport that already
\* exists.  The closure returned is <<event, handler>>.
on(w, event, handler) ==
  LET mh == w.messageHandlers
      old == IF event \in DOMAIN mh THEN mh[event] ELSE <<>>
  IN [w EXCEPT !.messageHandlers =
                  [e \in DOMAIN mh \cup {event} |->
                     IF e # event THEN mh[e]
                     ELSE IF handler \in Members(old) THEN old
                     ELSE Append(old, handler)],
               !.handles = @ \cup {<<event, handler>>}]

\* An unsubscribe closure that leaves the entry of an event type without
\* handlers in the map.
unsubscribe_keepEmpty(w, event, handler) ==
  IF event \notin DOMAIN w.messageHandlers THEN w
  ELSE [w EXCEPT !.messageHandlers[event] = Without(@, handler)]

\* An unsubscribe closure that removes nothing.
unsubscribe_noop(w, event, handler) == w

\* the unsubscribe closure returned by on(event, handler)
unsubscribe(w, event, handler) ==
  LET mh == w.messageHandlers
  IN IF event \notin DOMAIN mh THEN w
     ELSE IF Without(mh[event], handler) = <<>>
          THEN [w EXCEPT !.messageHandlers =
                           [e \in DOMAIN mh \ {event} |-> mh[e]]]
          ELSE [w EXCEPT !.messageHandlers[event] = Without(@, handler)]

\* JSON.parse of the bodies that are JSON texts.
JSONparse(data) ==
  IF data = BodyNull THEN [type |-> "null"] ELSE [type |-> "object", text |-> data]

\* parseEventData without JSON.parse.
parseEventData_raw(data) == [type |-> "string", value |-> data]

\* parseEventData: JSON.parse(data); a body that is not JSON is returned as
\* the raw string.
parseEventData(data) ==
  IF data \in {BodyObject, BodyNull}
  THEN JSONparse(data)
  ELSE [type |-> "string", value |-> data]

\* handlers.forEach without the try/catch around the call of the handler: the
\* first handler that throws ends the iteration with its exception.
forEachHandler_noCatch(w, hs, throwers) ==
  LET first == IF \E i \in DOMAIN hs : hs[i] \in throwers
               THEN CHOOSE i \in DOMAIN hs :
                      hs[i] \in throwers /\ \A j \in 1..(i - 1) : hs[j] \notin throwers
               ELSE Len(hs)
  IN [w EXCEPT !.delivered =
                 [h \in Handlers |->
                    IF \E i \in 1..first : hs[i] = h THEN @[h] + 1 ELSE @[h]],
               !.thrown = (\E i \in DOMAIN hs : hs[i] \in throwers)]

\* The unsubscribe closures of the given handlers for one event type are
\* invoked, those that exist.
RECURSIVE unsubscribeAll(_, _, _)

unsubscribeAll(w, event, victims) ==
  IF victims = {} THEN w
  ELSE LET v == CHOOSE x \in victims : TRUE
           w1 == IF <<event, v>> \in w.handles \cup w.spent
                 THEN [unsubscribe(w, event, v) EXCEPT
                         !.handles = @ \ {<<event, v>>},
                         !.spent = @ \cup {<<event, v>>}]
                 ELSE w
       IN unsubscribeAll(w1, event, victims \ {v})

\* The call of one handler with the envelope, inside its try block: a handler
\* of throwers throws at once, another one invokes the unsubscribe closures
\* it is given to invoke and returns.
callHandler(w, h, throwers) ==
  LET w1 == [w EXCEPT !.delivered[h] = @ + 1]
  IN IF h \in throwers THEN w1
     ELSE unsubscribeAll(w1, w.envelope.event,
                         {v \in Handlers : <<h, v>> \in w.unsubscribers})

\* Set.prototype.forEach walks the Set itself, not a copy: an entry that is
\* deleted before its turn is not visited.
RECURSIVE forEachFrom(_, _, _)

forEachFrom(w, rest, throwers) ==
  IF rest = <<>> THEN w
  ELSE LET event == w.envelope.event
           live == IF event \in DOMAIN w.messageHandlers
                   THEN Members(w.messageHandlers[event]) ELSE {}
       IN IF Head(rest) \in live
          THEN forEachFrom(callHandler(w, Head(rest), throwers), Tail(rest), throwers)
          ELSE forEachFrom(w, Tail(rest), throwers)

\* handlers.forEach(handler => { try { handler(message) } catch { log } }):
\* every handler the Set holds when its turn comes is called; what one of
\* them throws is caught and logged.
forEachHandler(w, hs, throwers) == forEachFrom(w, hs, throwers)

\* handleMessage: the body is decoded and wrapped in an envelope that every
\* handler registered for the event type receives; an exception that reaches
\* the outer catch is reported as an error.
handleMessage(w, eventType, data, throwers) ==
  LET message == [event |-> eventType, data |-> parseEventData(data)]
      w1 == IF eventType \in DOMAIN w.messageHandlers
            THEN forEachHandler([w EXCEPT !.envelope = message],
                                w.messageHandlers[eventType], throwers)
            ELSE w
  IN IF w1.thrown THEN handleError([w1 EXCEPT !.thrown = FALSE], "parse") ELSE w1

\* A frame of type eventType arrives on transport t: onmessage takes the
\* default type, a listener added by setupEventHandlers takes a named type,
\* and a named type without a listener is dropped by the transport.
frame(w, t, eventType, data, throwers) ==
  IF eventType = DefaultEvent \/ eventType \in w.listeners[t]
  THEN handleMessage(w, eventType, data, throwers)
  ELSE w

\* ------------------------------------------- the adapter subscription pattern
\* The error hook every adapter registers with sseClient.onError: it logs a
\* warning ('will retry') whatever the error, the terminal one included, and
\* leaves the subscription as it is.
adapterErrorHook(active, terminal) == active

\* The adapter's part of a step of its client: the error hook runs once per
\* error reported during the step.
AdapterObserves(w) ==
  /\ poller' = IF mode = "stream" /\ w.reported # NoReports
                THEN adapterErrorHook(poller, w.reported["max"] > 0)
                ELSE poller
  /\ callbacks' = 0
  /\ UNCHANGED <<mode, adapter, cleaned, inflight>>

\* The data handlers the adapters register with sseClient.on.  Each one is a
\* try block around the use of message.data and the calls of onUpdate; the
\* value is the number of calls of onUpdate.
\*   price: destructures message.data and looks the asset up in assets;
\*   prices, positions, orders: read a property of message.data and go
\*     through what it holds;
\*   position, order, risk_update, metrics: hand message.data to a transform
\*     that reads its properties with defaults, and call onUpdate with the result.
\* Reading a property of null throws (caught by the handler); reading one of
\* a string yields undefined.
dataHandler(eventType, data) ==
  IF data.type = "null" THEN 0
  ELSE IF data.type = "object" THEN 1
  ELSE IF eventType \in {SingleEvent[a] : a \in Adapters \ {"prices"}}
               \cup {BatchEvent["risk"]}
       THEN 1
       ELSE 0

\* sseClient?.disconnect() with a plain member access.
optionalDisconnect_deref(w, client) ==
  IF client THEN disconnect(w) ELSE [w EXCEPT !.thrown = TRUE]

\* sseClient?.disconnect(): nothing when no client was created.
optionalDisconnect(w, client) == IF client THEN disconnect(w) ELSE w


\* --------------------------------------------------------------- initial state
\* A client as its constructor leaves it, before any adapter subscribed, but
\* for the delays configured and the hooks registered.
InitClient ==
  /\ eventSource = Null
  /\ reconnectAttempts = 0
  /\ reconnectTimer = FALSE
  /\ isManuallyDisconnected = FALSE
  /\ messageHandlers = EmptyMap
  /\ handles = {}
  /\ spent = {}
  /\ maxReconnectAttempts \in 0..MaxAttemptsOption
  /\ readyState = <<>>
  /\ listeners = <<>>
  /\ guard = {}
  /\ leaked = 0
  /\ ctorThrows \in BOOLEAN
  /\ delay = 0
  /\ reported = NoReports
  /\ scheduled = 0
  /\ delivered = [h \in Handlers |-> 0]
  /\ envelope = NoEnvelope
  /\ thrown = FALSE
  /\ callbacks = 0
  /\ mode = "none"
  /\ adapter = "none"
  /\ cleaned = FALSE
  /\ poller = FALSE
  /\ inflight = 0
  /\ connectCalls = 0
  /\ opened = FALSE
  /\ disconnected = FALSE
  /\ failures = 0
  /\ terminals = 0
  /\ last = <<"init">>

\* A client with the default delays.
Init ==
  /\ InitClient
  /\ hooks = NoHooks
  /\ unsubscribers = {}
  /\ reconnectDelay = DefaultReconnectDelay
  /\ maxReconnectDelay = DefaultMaxReconnectDelay
  /\ jitter = 0

\* A step that may create a transport is taken only below the bound.
Room(w) == w.ctorThrows \/ Len(w.readyState) < MaxTransports

Transports == 1..Len(readyState)

\* Where the client stands, as its caller sees it.
Phase ==
  IF eventSource # Null THEN readyState[eventSource]
  ELSE IF reconnectTimer THEN "backoff" ELSE "idle"

\* One call or callback of the client runs to completion and leaves the world w.
Step(w) == Set(w) /\ AdapterObserves(w)

\* ----------------------------------------------------------- public calls
Connect ==
  /\ mode = "none"
  /\ connectCalls < MaxConnects
  /\ eventSource # Null \/ Room(World)
  /\ Step(connect(World))
  /\ connectCalls' = connectCalls + 1
  /\ failures' = failures + connect(World).reported["create"]
  /\ last' = <<"connect", Phase>>
  /\ UNCHANGED <<opened, disconnected>>

Disconnect ==
  /\ mode = "none"
  /\ Step(disconnect(World))
  /\ disconnected' = TRUE
  /\ last' = <<"disconnect", Phase>>
  /\ UNCHANGED <<connectCalls, opened, failures>>

On(event, handler) ==
  /\ mode = "none"
  /\ <<event, handler>> \notin handles
  /\ Step(on(World, event, handler))
  /\ last' = <<"on", event, handler>>
  /\ UNCHANGED <<connectCalls, opened, disconnected, failures>>

\* onError, onOpen, onClose and the closures they return: from now on the
\* hooks of that kind behave as given.
OnError(behaviour) ==
  /\ mode = "none"
  /\ behaviour # hooks.error
  /\ Step([World EXCEPT !.hooks.error = behaviour])
  /\ last' = <<"onError", behaviour>>
  /\ UNCHANGED <<connectCalls, opened, disconnected, failures>>

OnOpen(behaviour) ==
  /\ mode = "none"
  /\ behaviour # hooks.open
  /\ Step([World EXCEPT !.hooks.open = behaviour])
  /\ last' = <<"onOpen", behaviour>>
  /\ UNCHANGED <<connectCalls, opened, disconnected, failures>>

OnClose(behaviour) ==
  /\ mode = "none"
  /\ behaviour # hooks.close
  /\ Step([World EXCEPT !.hooks.close = behaviour])
  /\ last' = <<"onClose", behaviour>>
  /\ UNCHANGED <<connectCalls, opened, disconnected, failures>>

\* The first call of an unsubscribe closure.
Unsubscribe(event, handler) ==
  /\ mode = "none"
  /\ <<event, handler>> \in handles
  /\ Step([unsubscribe(World, event, handler) EXCEPT
             !.handles = @ \ {<<event, handler>>},
             !.spent = @ \cup {<<event, handler>>}])
  /\ last' = <<"unsubscribe", event, handler>>
  /\ UNCHANGED <<connectCalls, opened, disconnected, failures>>

\* A second or later call of an unsubscribe closure.
UnsubscribeAgain(event, handler) ==
  /\ mode = "none"
  /\ <<event, handler>> \in spent
  /\ Step(unsubscribe(World, event, handler))
  /\ last' = <<"unsubscribe again", event, handler>>
  /\ UNCHANGED <<connectCalls, opened, disconnected, failures>>

\* ------------------------------------------------------- transport events
\* The 'open' event of transport t: onopen, then the 'open' listener that
\* clears the timeout of that attempt.
TransportOpen(t) ==
  /\ IsConnecting(readyState[t])
  /\ Step(clearTimeoutHandler(onopen([World EXCEPT !.readyState[t] = "open",
                                                   !.delay = 0]), t))
  /\ opened' = TRUE
  /\ last' = <<"open", reconnectAttempts > 0>>
  /\ UNCHANGED <<connectCalls, disconnected, failures>>

\* The 'error' event of transport t.  The transport has either failed for
\* good (CLOSED) or is re-establishing the connection itself (CONNECTING).
TransportError(t, fatal) ==
  /\ readyState[t] # "closed"
  /\ Step(onerror([World EXCEPT !.readyState[t] =
                      IF fatal THEN "closed"
                      ELSE IF @ = "connecting" THEN @ ELSE "reconnecting"]))
  /\ failures' = IF fatal THEN failures + 1 ELSE failures
  /\ last' = <<"error", fatal>>
  /\ UNCHANGED <<connectCalls, opened, disconnected>>

\* A frame of the given type and body arrives on the open transport t; the
\* handlers in throwers throw when they are called.  The handlers of an
\* adapter hand the value decoded to onUpdate.
Frame(t, eventType, data, throwers) ==
  /\ readyState[t] = "open"
  /\ Set(frame(World, t, eventType, data, throwers))
  /\ callbacks' = IF mode = "stream" /\ \E h \in Handlers : delivered'[h] > 0
                  THEN dataHandler(eventType, envelope'.data)
                  ELSE 0
  /\ last' = <<"frame", t, eventType, data, throwers>>
  /\ UNCHANGED <<adapterVars, connectCalls, opened, disconnected, failures>>

\* ------------------------------------------------------------ timer expiries
TimeoutExpires(t) ==
  /\ t \in guard
  /\ Step(timeoutCallback([World EXCEPT !.guard = @ \ {t}]))
  /\ failures' = failures + timeoutCallback(World).reported["timeout"]
  /\ last' = <<"timeout", Phase>>
  /\ UNCHANGED <<connectCalls, opened, disconnected>>

ReconnectTimerExpires ==
  /\ reconnectTimer
  /\ Room(World)
  /\ Step(reconnectCallback(World))
  /\ failures' = failures + reconnectCallback(World).reported["create"]
  /\ last' = <<"reconnect", Phase>>
  /\ UNCHANGED <<connectCalls, opened, disconnected>>

\* A reconnect timer that is pending but no longer held in this.reconnectTimer:
\* its callback runs all the same.
LeakedTimerExpires ==
  /\ leaked > 0
  /\ Room(World)
  /\ Step(reconnectCallback([World EXCEPT
             !.leaked = @ - 1 + (IF reconnectTimer THEN 1 ELSE 0)]))
  /\ failures' = failures + reconnectCallback(World).reported["create"]
  /\ last' = <<"leaked", Phase>>
  /\ UNCHANGED <<connectCalls, opened, disconnected>>

\* Math.random() is at another point of its sequence when it is called next.
Random(j) ==
  /\ j # jitter
  /\ jitter' = j
  /\ UNCHANGED <<clientVars, readyState, listeners, guard, leaked, ctorThrows,
                 delay, obsVars, adapterVars, histVars>>

\* ------------------------------------------------- the adapter's subscription
\* subscribeToXUpdates(onUpdate).  createSSEClient constructs the client and
\* connects it; the adapter then registers its two data handlers and its error
\* hook.  The catch clause (createSSEClient threw) starts the poller instead.
Subscribe(a, throws) ==
  /\ mode = "none"
  /\ connectCalls = 0
  /\ handles = {}
  /\ IF throws
     THEN /\ Set(World)
          /\ mode' = "polling"
          /\ poller' = TRUE
          /\ UNCHANGED <<connectCalls, failures>>
     ELSE /\ Set(on(on(connect(World), SingleEvent[a], "h1"), BatchEvent[a], "h2"))
          /\ mode' = "stream"
          /\ poller' = FALSE
          /\ connectCalls' = connectCalls + 1
          /\ failures' = failures + connect(World).reported["create"]
  /\ adapter' = a
  /\ callbacks' = 0
  /\ last' = <<"subscribe", throws>>
  /\ UNCHANGED <<cleaned, inflight, opened, disconnected>>

\* The cleanup function subscribeToXUpdates returned, on the stream path:
\* the two unsubscribe closures, then sseClient?.disconnect().
streamCleanup(w, a) ==
  optionalDisconnect(
    unsubscribe(unsubscribe(w, SingleEvent[a], "h1"), BatchEvent[a], "h2"), TRUE)

\* The cleanup function returned by the catch clause: clearInterval, then
\* sseClient?.disconnect() on the client that was never created.
pollingCleanup(w) == optionalDisconnect(w, FALSE)

\* A call of the cleanup function, the first one or a later one.
AdapterCleanup ==
  /\ mode \in {"stream", "polling"}
  /\ IF mode = "stream"
     THEN LET pairs == {<<SingleEvent[adapter], "h1">>, <<BatchEvent[adapter], "h2">>}
          IN Set([streamCleanup(World, adapter) EXCEPT
                    !.handles = @ \ pairs, !.spent = @ \cup pairs])
     ELSE Set(pollingCleanup(World))
  /\ poller' = FALSE
  /\ cleaned' = TRUE
  /\ callbacks' = 0
  /\ disconnected' = (disconnected \/ mode = "stream")
  /\ last' = <<"cleanup", mode, cleaned>>
  /\ UNCHANGED <<mode, adapter, inflight, connectCalls, opened, failures>>

\* One tick of the fallback poller: the async callback of setInterval issues
\* its request and is suspended at the await.
PollTick ==
  /\ poller
  /\ inflight < MaxInflight
  /\ inflight' = inflight + 1
  /\ callbacks' = 0
  /\ last' = <<"poll">>
  /\ UNCHANGED <<clientVars, envVars, reported, scheduled, delivered, envelope,
                 thrown, mode, adapter, cleaned, poller,
                 connectCalls, opened, disconnected, failures, terminals>>

\* The response of a poll request arrives and the callback resumes after the
\* await: the value fetched is handed to onUpdate, and a rejected request is
\* logged by the catch clause.
PollResponse(ok) ==
  /\ inflight > 0
  /\ inflight' = inflight - 1
  /\ callbacks' = IF ok THEN 1 ELSE 0
  /\ last' = <<"poll response", ok>>
  /\ UNCHANGED <<clientVars, envVars, reported, scheduled, delivered, envelope,
                 thrown, mode, adapter, cleaned, poller,
                 connectCalls, opened, disconnected, failures, terminals>>

\* ------------------------------------------------------------ specifications
\* The life cycle of one client under any order of calls and events.
Next ==
  \/ Connect
  \/ Disconnect
  \/ \E t \in Transports : TransportOpen(t)
  \/ \E t \in Transports, fatal \in BOOLEAN : TransportError(t, fatal)
  \/ \E t \in guard : TimeoutExpires(t)
  \/ ReconnectTimerExpires
  \/ LeakedTimerExpires

Spec == Init /\ [][Next]_vars

\* Subscriptions and dispatch on a client that is connected once and retries.
NextRegistry ==
  \/ connectCalls = 0 /\ Connect
  \/ \E s \in Subscriptions : On(s[1], s[2])
  \/ \E s \in Subscriptions : Unsubscribe(s[1], s[2])
  \/ \E t \in Transports : TransportOpen(t)
  \/ \E t \in Transports : TransportError(t, TRUE)
  \/ ReconnectTimerExpires
  \/ \E t \in Transports, e \in RegistryTypes : Frame(t, e, BodyObject, {})

\* The registry is exercised on a client whose transport can be created and
\* that retries once.
InitRegistry == Init /\ maxReconnectAttempts = 1 /\ ~ctorThrows

SpecRegistry == InitRegistry /\ [][NextRegistry]_vars

\* Dispatch on a connected client: subscriptions made and released by hand,
\* frames of every body, handlers that throw.
NextDispatch ==
  \/ connectCalls = 0 /\ Connect
  \/ \E s \in Subscriptions : On(s[1], s[2])
  \/ \E s \in Subscriptions : Unsubscribe(s[1], s[2])
  \/ \E s \in Subscriptions : UnsubscribeAgain(s[1], s[2])
  \/ \E t \in Transports : TransportOpen(t)
  \/ \E t \in Transports, e \in RegistryTypes, d \in Bodies,
        throwers \in SUBSET Handlers : Frame(t, e, d, throwers)

SpecDispatch == InitRegistry /\ [][NextDispatch]_vars

\* Dispatch to handlers that invoke unsubscribe closures, their own or
\* another handler's, while they are called.
NextReentry ==
  \/ connectCalls = 0 /\ Connect
  \/ \E s \in Subscriptions : On(s[1], s[2])
  \/ \E s \in Subscriptions : Unsubscribe(s[1], s[2])
  \/ \E t \in Transports : TransportOpen(t)
  \/ \E t \in Transports, e \in RegistryTypes : Frame(t, e, BodyObject, {})

InitReentry ==
  /\ InitClient
  /\ hooks = NoHooks
  /\ unsubscribers \in SUBSET (Handlers \X Handlers)
  /\ maxReconnectAttempts = 1
  /\ ~ctorThrows
  /\ reconnectDelay = DefaultReconnectDelay
  /\ maxReconnectDelay = DefaultMaxReconnectDelay
  /\ jitter = 0

SpecReentry == InitReentry /\ [][NextReentry]_vars

\* The backoff of a client that is connected once, for the delays a caller
\* may configure and every jitter.
NextDelay ==
  \/ connectCalls = 0 /\ Connect
  \/ \E t \in Transports : TransportOpen(t)
  \/ \E t \in Transports : TransportError(t, TRUE)
  \/ \E t \in guard : TimeoutExpires(t)
  \/ ReconnectTimerExpires
  \/ \E j \in Jitters : Random(j)

InitDelay ==
  /\ InitClient
  /\ hooks = NoHooks
  /\ unsubscribers = {}
  /\ maxReconnectAttempts = MaxAttemptsOption
  /\ reconnectDelay \in ReconnectDelays
  /\ maxReconnectDelay \in MaxReconnectDelays
  /\ jitter \in Jitters

SpecDelay == InitDelay /\ [][NextDelay]_vars

\* The life cycle of a client with a budget of one reconnect whose hooks call
\* disconnect() or throw.
InitHooks ==
  /\ InitClient
  /\ maxReconnectAttempts = 1
  /\ hooks \in HookBehaviours
  /\ unsubscribers = {}
  /\ reconnectDelay = DefaultReconnectDelay
  /\ maxReconnectDelay = DefaultMaxReconnectDelay
  /\ jitter = 0

NextHooks ==
  \/ Connect
  \/ Disconnect
  \/ \E t \in Transports : TransportOpen(t)
  \/ \E t \in Transports, fatal \in BOOLEAN : TransportError(t, fatal)
  \/ \E t \in guard : TimeoutExpires(t)
  \/ ReconnectTimerExpires
  \/ \E behaviour \in ErrorHooks : OnError(behaviour)
  \/ \E behaviour \in OpenHooks : OnOpen(behaviour)
  \/ \E behaviour \in CloseHooks : OnClose(behaviour)

SpecHooks == InitHooks /\ [][NextHooks]_vars

\* A client that is connected once, is never disconnected and whose
\* transports never open:
\* every timer armed expires in the end.  setTimeout runs the callback of a
\* timer that is not cleared; the errors of a transport may or may not come.
InitLive ==
  /\ InitClient
  /\ hooks \in HookBehaviours
  /\ unsubscribers = {}
  /\ hooks.error # "disconnect"
  /\ hooks.close # "disconnect"
  /\ reconnectDelay = DefaultReconnectDelay
  /\ maxReconnectDelay = DefaultMaxReconnectDelay
  /\ jitter = 0

NextLive ==
  \/ connectCalls = 0 /\ Connect
  \/ \E t \in Transports, fatal \in BOOLEAN : TransportError(t, fatal)
  \/ \E t \in guard : TimeoutExpires(t)
  \/ ReconnectTimerExpires

FairTimers ==
  /\ WF_vars(\E t \in guard : TimeoutExpires(t))
  /\ WF_vars(ReconnectTimerExpires)

SpecLive == InitLive /\ [][NextLive]_vars /\ FairTimers

\* One adapter subscription from subscribeToXUpdates to its cleanup.
NextAdapter ==
  \/ \E a \in Adapters, throws \in BOOLEAN : Subscribe(a, throws)
  \/ \E t \in Transports : TransportOpen(t)
  \/ \E t \in Transports, fatal \in BOOLEAN : TransportError(t, fatal)
  \/ \E t \in Transports, a \in {adapter} \cap Adapters :
       \E e \in {DefaultEvent, SingleEvent[a], BatchEvent[a]}, d \in Bodies :
          Frame(t, e, d, {})
  \/ \E t \in guard : TimeoutExpires(t)
  \/ ReconnectTimerExpires
  \/ PollTick
  \/ \E ok \in BOOLEAN : PollResponse(ok)
  \/ AdapterCleanup

SpecAdapter == Init /\ [][NextAdapter]_vars

\* ===================================================================== claims

\* C1: with maxReconnectAttempts = N, when connect() is called once, no
\* attempt reaches Open and disconnect() is never called, the client creates
\* at most N+1 transports; the terminal error is reported exactly when the
\* (N+1)-th attempt has failed, not before, and N+1 transports exist then.
C1_Scenario == connectCalls <= 1 /\ ~opened /\ ~disconnected /\ ~ctorThrows

C1_AttemptsThenTerminal ==
  C1_Scenario =>
    /\ Len(readyState) <= maxReconnectAttempts + 1
    /\ failures <= maxReconnectAttempts + 1
    /\ terminals = (IF failures = maxReconnectAttempts + 1 THEN 1 ELSE 0)
    /\ terminals = 1 => Len(readyState) = maxReconnectAttempts + 1

C1_Witness ==
  /\ C1_Scenario
  /\ maxReconnectAttempts = 2
  /\ Len(readyState) = 3
  /\ terminals = 1
  /\ last = <<"error", TRUE>>

\* The run of consecutive failures C2 speaks of: one connect(), no Open, no
\* disconnect().
C2_Run == connectCalls <= 1 /\ ~opened /\ ~disconnected

\* C2 as stated, for a client whose transports can be created: after exactly
\* maxReconnectAttempts consecutive failures no reconnect timer is pending.
C2_AsStated ==
  (C2_Run /\ ~ctorThrows /\ failures = maxReconnectAttempts) => ~reconnectTimer

C2_Exhausted == C2_Run /\ failures = maxReconnectAttempts + 1

\* C2 amended: after exactly maxReconnectAttempts + 1 consecutive failures the
\* terminal error has been reported, the client holds no transport, no
\* reconnect timer is pending, and no later step of the run schedules a
\* reconnection or creates a transport.
C2_NoReconnectAfterBudget ==
  /\ [](C2_Exhausted =>
          /\ ~reconnectTimer
          /\ leaked = 0
          /\ eventSource = Null
          /\ terminals = 1)
  /\ [][(C2_Exhausted /\ C2_Run') =>
          /\ scheduled' = 0
          /\ ~reconnectTimer'
          /\ Len(readyState') = Len(readyState)]_vars

C2_Witness ==
  /\ C2_Exhausted
  /\ ctorThrows
  /\ maxReconnectAttempts = 1
  /\ last[1] = "reconnect"

\* C3 as stated, for a client whose transports can be created: the terminal
\* error is reported at most once in the life of the client, whatever calls
\* and events follow the first report.
C3_AsStated == ~ctorThrows => terminals <= 1

\* C3 amended: on a client whose connect() is called once, the terminal error
\* is reported at most once: no timer expiry or transport event that follows
\* the report causes a second one.
C3_TerminalOncePerConnect == connectCalls <= 1 => terminals <= 1

C3_Witness ==
  /\ connectCalls = 1
  /\ terminals = 1
  /\ last[1] = "timeout"

\* C4: right after any transport reaches Open the attempt counter is 0; the
\* next failure is then scheduled as attempt 1, and with a budget of at least
\* one attempt it is scheduled and not reported as terminal.
C4_ResetOnOpen ==
  /\ [](last[1] = "open" => reconnectAttempts = 0)
  /\ [][(opened /\ reconnectAttempts = 0 /\ scheduled' > 0) =>
          (reconnectAttempts' = 1 /\ reconnectTimer')]_vars
  /\ [][(/\ last[1] = "open"
         /\ last' = <<"error", TRUE>>
         /\ eventSource # Null
         /\ readyState'[eventSource] = "closed"
         /\ maxReconnectAttempts >= 1) =>
          (scheduled' = 1 /\ reconnectAttempts' = 1 /\ terminals' = terminals)]_vars

C4_Witness == last = <<"open", TRUE>> /\ maxReconnectAttempts = 2

\* C5: disconnect() leaves no transport held and no reconnect timer pending,
\* in whatever phase it is called; and from then on, as long as connect() is
\* not called, no step creates a transport.
C5_DisconnectStops ==
  /\ [](last[1] = "disconnect" =>
          /\ ~reconnectTimer
          /\ leaked = 0
          /\ eventSource = Null
          /\ isManuallyDisconnected)
  /\ [][(isManuallyDisconnected /\ connectCalls' = connectCalls) =>
          Len(readyState') = Len(readyState)]_vars

\* C6 as stated, for a client whose transports can be created: once
\* disconnect() has been called, the client never again schedules a
\* reconnection, whatever follows.
C6_AsStated == [][(disconnected /\ ~ctorThrows) => scheduled' = 0]_vars

\* C6 amended: after disconnect() the client schedules no reconnection until
\* connect() is called again; connect() clears the manual-stop flag, and the
\* failures that follow it are retried as usual.
C6_StoppedUntilConnect ==
  [][(isManuallyDisconnected /\ connectCalls' = connectCalls) =>
       (scheduled' = 0 /\ ~reconnectTimer' /\ isManuallyDisconnected')]_vars

C6_Witness ==
  /\ isManuallyDisconnected
  /\ last[1] = "leaked"
  /\ reconnectAttempts < maxReconnectAttempts

\* C7: when on(T, h) is called for a type T other than the default while the
\* client holds a transport, that transport has a listener for T afterwards.
C7_ListenerBoundOnSubscribe ==
  (last[1] = "on" /\ last[2] # DefaultEvent /\ eventSource # Null)
    => last[2] \in listeners[eventSource]

\* C8: when the client of an adapter subscription that has not been cleaned
\* up has reported the terminal error to the adapter's error hook (the
\* transports can be created, so the report follows the registration of the
\* hook), the fallback poller is running.
C8_PollerAfterTerminal ==
  (mode = "stream" /\ ~ctorThrows /\ terminals > 0 /\ ~disconnected) => poller

\* C9: when the timeout timer of transport t expires while t is still
\* CONNECTING and was never open, that step reports a timeout error and closes
\* t; it creates no transport, so the transport of the next attempt is
\* created after t was closed.
C9_TimeoutClosesFirst ==
  [][\A t \in Transports :
       (/\ last'[1] = "timeout"
        /\ t \in guard
        /\ t \notin guard'
        /\ readyState[t] = "connecting") =>
         /\ reported'["timeout"] = 1
         /\ readyState'[t] = "closed"
         /\ Len(readyState') = Len(readyState)]_vars

\* C10: the timeout timer of an attempt that has reached Open is disarmed,
\* also after the transport fell back to CONNECTING, and a disarmed timer is
\* never armed again: it can neither report a timeout nor close the transport.
C10_GuardDisarmedOnOpen ==
  /\ [](\A t \in Transports :
          readyState[t] \in {"open", "reconnecting"} => t \notin guard)
  /\ [][\A t \in Transports : t \notin guard => t \notin guard']_vars

C10_Witness ==
  /\ eventSource # Null
  /\ readyState[eventSource] = "reconnecting"
  /\ guard # {}
\* The frame of the latest step was handed to handleMessage: its type is the
\* default one or the transport has a listener for it.
C11_Dispatched ==
  /\ last[1] = "frame"
  /\ (last[3] = DefaultEvent \/ last[3] \in listeners[last[2]])

C11_Registered ==
  IF last[3] \in DOMAIN messageHandlers
  THEN Members(messageHandlers[last[3]]) ELSE {}

\* What the three bodies decode to: the object, null, and for a body that is
\* not JSON the raw text itself.
C11_Decoded ==
  IF last[4] = BodyObject THEN [type |-> "object", text |-> BodyObject]
  ELSE IF last[4] = BodyNull THEN [type |-> "null"]
  ELSE [type |-> "string", value |-> last[4]]

\* C11: for a frame of type T that is dispatched, every handler registered
\* for T is called exactly once, with an envelope whose event is T and whose
\* data is the decoded body; a handler registered for other types only, or
\* whose unsubscribe closure was invoked (and that was not registered again),
\* is not called.
C11_DispatchExactlyOnce ==
  C11_Dispatched =>
    /\ \A h \in Handlers :
         delivered[h] = (IF h \in C11_Registered THEN 1 ELSE 0)
    /\ C11_Registered # {} =>
         envelope = [event |-> last[3], data |-> C11_Decoded]
    /\ \A h \in Handlers :
         (<<last[3], h>> \in spent \ handles) => delivered[h] = 0

C11_Witness ==
  /\ C11_Dispatched
  /\ last[3] = "price"
  /\ last[4] = BodyText
  /\ delivered = [h \in Handlers |-> IF h = "h2" THEN 1 ELSE 0]
  /\ DefaultEvent \in DOMAIN messageHandlers
  /\ <<"price", "h1">> \in spent

\* C12: when a handler registered for T throws during the dispatch of a
\* frame of type T, every handler registered for T is still called for that
\* frame, no exception leaves the transport's callback, no error is reported,
\* and the step changes nothing of the connection: transport, attempt
\* counter, timers.
C12_ThrowingHandlerIsolated ==
  /\ []((C11_Dispatched /\ last[5] \cap C11_Registered # {}) =>
          /\ \A h \in C11_Registered : delivered[h] = 1
          /\ ~thrown
          /\ reported = NoReports)
  /\ [][last'[1] = "frame" =>
          UNCHANGED <<eventSource, reconnectAttempts, reconnectTimer,
                      isManuallyDisconnected, messageHandlers, readyState,
                      listeners, guard, leaked>>]_vars

C12_Witness ==
  /\ C11_Dispatched
  /\ last[3] = "price"
  /\ last[5] = {"h1"}
  /\ messageHandlers["price"] = <<"h1", "h2">>
  /\ delivered["h2"] = 1

\* C13: a second or later call of an unsubscribe closure does not throw and
\* leaves the registry of handlers as it was.
C13_SecondUnsubscribeNoEffect ==
  [][last'[1] = "unsubscribe again" =>
       (messageHandlers' = messageHandlers /\ ~thrown')]_vars

\* C14: when the construction of the stream throws, subscribeToX does not
\* throw, creates no client transport and starts the poller; the cleanup
\* function it returns stops the poller, leaves no timer armed and does not
\* throw although no client exists.
C14_PollingFallback ==
  /\ [](last = <<"subscribe", TRUE>> =>
          /\ mode = "polling"
          /\ poller
          /\ ~thrown
          /\ Len(readyState) = 0)
  /\ []((last[1] = "cleanup" /\ mode = "polling") =>
          /\ ~poller
          /\ ~reconnectTimer
          /\ guard = {}
          /\ ~thrown)

C14_Witness == last = <<"cleanup", "polling", FALSE>> /\ ~poller

\* C15: once the cleanup function of a subscription has been called, its
\* data handlers are no longer registered, its client holds no transport, has
\* no reconnect timer and stays stopped, and its poller is off; a later call
\* of the cleanup function does not throw, reports nothing and changes
\* nothing of the client, of its transports and timers, or of the poller.
C15_CleanupOnce ==
  /\ []((cleaned /\ mode = "stream") =>
          /\ messageHandlers = EmptyMap
          /\ handles = {}
          /\ eventSource = Null
          /\ isManuallyDisconnected
          /\ ~reconnectTimer)
  /\ [](cleaned => ~poller)
  /\ [](last[1] = "cleanup" => ~thrown)
  /\ [][(cleaned /\ last'[1] = "cleanup") =>
          /\ UNCHANGED <<clientVars, envVars, poller, inflight>>
          /\ reported' = NoReports]_vars

C15_Witness ==
  /\ last = <<"cleanup", "stream", TRUE>>
  /\ opened
  /\ guard # {}

\* C16: a frame whose body is null or is not JSON causes no call of the
\* subscriber's callback and no exception, whichever data handler of
\* whichever adapter receives it.
C16_MalformedIgnored ==
  (last[1] = "frame" /\ last[4] \in {BodyNull, BodyText}) =>
    (callbacks = 0 /\ ~thrown)

\* C17: connect() never ends with an exception; when the creation of the
\* transport throws, connect() reports the construction failure to the error
\* hooks, holds no transport, and schedules a reconnect if the budget is not
\* used up (the terminal error is reported otherwise).
C17_ConnectNeverThrows ==
  /\ [](last[1] = "connect" => ~thrown)
  /\ [][(last'[1] = "connect" /\ ctorThrows /\ eventSource = Null) =>
          /\ reported'["create"] = 1
          /\ eventSource' = Null
          /\ IF reconnectAttempts < maxReconnectAttempts
             THEN /\ scheduled' = 1
                  /\ reconnectTimer'
                  /\ reconnectAttempts' = reconnectAttempts + 1
                  /\ reported'["max"] = 0
             ELSE /\ scheduled' = 0
                  /\ reported'["max"] = 1]_vars

C17_Witness ==
  /\ last[1] = "connect"
  /\ ctorThrows
  /\ reported["create"] = 1
  /\ reconnectTimer
  /\ reconnectAttempts = 1

\* C18: connect() on a client that holds a transport creates no transport,
\* reports and schedules nothing, and leaves the attempt counter, the
\* manual-stop flag, the timers and the registry of handlers as they were.
C18_ConnectWhileHeldIsNoOp ==
  [][(last'[1] = "connect" /\ eventSource # Null) =>
       /\ UNCHANGED <<clientVars, envVars>>
       /\ reported' = NoReports
       /\ scheduled' = 0
       /\ ~thrown']_vars

C18_Witness ==
  /\ last = <<"connect", "open">>
  /\ connectCalls = 2
  /\ eventSource # Null
  /\ readyState[eventSource] = "open"

\* A step that arms a reconnect timer.
C19_Schedules == scheduled' = 1 /\ reconnectAttempts' = reconnectAttempts + 1

\* C19: the delay of every reconnect timer armed is
\* min(reconnectDelay * 2^(attempt-1) + jitter, maxReconnectDelay), attempt
\* being the counter after its increment and jitter a value in [0, 1000); no
\* delay exceeds maxReconnectDelay.
C19_DelayFormula ==
  [][C19_Schedules =>
       /\ jitter >= 0 /\ jitter < 1000
       /\ delay' = (IF reconnectDelay * 2 ^ (reconnectAttempts' - 1) + jitter
                          <= maxReconnectDelay
                    THEN reconnectDelay * 2 ^ (reconnectAttempts' - 1) + jitter
                    ELSE maxReconnectDelay)
       /\ delay' <= maxReconnectDelay]_vars

C19_Witness ==
  /\ scheduled = 1
  /\ reconnectAttempts = 3
  /\ reconnectDelay = 1000
  /\ delay = 3000
  /\ maxReconnectDelay = 3000

\* C20: within a run of consecutive failures, the delay of a reconnect is
\* never smaller than the delay of the reconnect before it.
C20_DelayMonotone ==
  [][(C19_Schedules /\ reconnectAttempts >= 1) => delay' >= delay]_vars

\* C21: a reconnect timer and a connection-timeout timer are never pending
\* at the same time.
C21_OneTimerKind == ~(reconnectTimer /\ guard # {})

\* C22: when disconnect() returns, no timer the client created is pending:
\* no reconnect timer, held or not, and no connection-timeout timer.
C22_NoTimerAfterDisconnect ==
  last[1] = "disconnect" => (~reconnectTimer /\ leaked = 0 /\ guard = {})

\* C25: no event type of the registry is mapped to an empty collection of
\* handlers, and no handler is held twice for a type.
C25_NoEmptyEntry ==
  \A e \in DOMAIN messageHandlers :
    /\ messageHandlers[e] # <<>>
    /\ Cardinality(Members(messageHandlers[e])) = Len(messageHandlers[e])

C25_Witness ==
  /\ last = <<"unsubscribe", "price", "h2">>
  /\ DOMAIN messageHandlers = {DefaultEvent}
  /\ <<"price", "h1">> \in spent

\* The transports that have not been closed.
C26_Unclosed == {t \in Transports : readyState[t] # "closed"}

\* C26: the client never has more than one unclosed transport.
C26_OneUnclosedTransport == Cardinality(C26_Unclosed) <= 1

\* C27: the timeout timer of transport t reports a timeout, or closes a
\* transport, only when t is the transport held and t is still CONNECTING
\* without having been open.
C27_GuardOwnAttempt ==
  [][\A t \in Transports :
       (/\ last'[1] = "timeout"
        /\ t \in guard
        /\ t \notin guard'
        /\ \/ reported'["timeout"] > 0
           \/ \E u \in Transports : readyState[u] # "closed" /\ readyState'[u] = "closed")
       => (t = eventSource /\ readyState[t] = "connecting")]_vars

\* C30: once the cleanup function of a subscription has returned, the
\* subscriber callback onUpdate is not invoked again, in stream mode and in
\* polling mode.
C30_SilentAfterCleanup == cleaned => callbacks = 0

\* A failure was handled (a transport error, a timeout, a failed
\* construction) and a hook called disconnect() while it was.
C24_HookDisconnected ==
  /\ last'[1] \in {"error", "timeout", "connect", "reconnect", "leaked"}
  /\ isManuallyDisconnected'
  /\ ~isManuallyDisconnected \/ last'[1] = "connect"

\* C24: when an error hook or a close hook calls disconnect() while the
\* client handles a failure, no reconnect is scheduled by that handling, the
\* client holds no transport and no reconnect timer afterwards, and no
\* transport is created until connect() is called.
C24_ReentrantDisconnect ==
  /\ [][C24_HookDisconnected =>
          (scheduled' = 0 /\ eventSource' = Null /\ ~reconnectTimer')]_vars
  /\ [][(isManuallyDisconnected /\ last'[1] # "connect") =>
          Len(readyState') = Len(readyState)]_vars

\* C28: with no disconnect() and no transport that opens, under fair expiry
\* of the timers a client that was connected reports the terminal error in
\* the end and then holds no transport and no reconnect timer.
C28_ReconnectionProgress ==
  (connectCalls > 0) ~> (terminals > 0 /\ eventSource = Null /\ ~reconnectTimer)

\* C29: when the client handles a fatal transport error or a timeout of the
\* transport it holds, with budget left and without a manual disconnect, the
\* reconnect timer that was pending is cleared and a new one is armed,
\* whatever the open and close hooks do.
C29_RecoveryDespiteHooks ==
  [][(/\ last'[1] \in {"error", "timeout"}
      /\ eventSource # Null
      /\ eventSource' = Null
      /\ ~isManuallyDisconnected'
      /\ reconnectAttempts < maxReconnectAttempts)
     => (scheduled' = 1 /\ reconnectTimer' /\ leaked' = leaked)]_vars

\* C23: when a frame of type T is dispatched, every handler that was
\* registered for T when the dispatch began is called exactly once for that
\* frame, whatever unsubscribe closures the handlers invoke while they are
\* called.
C23_SnapshotDispatch ==
  [][(/\ last'[1] = "frame"
      /\ last'[3] = DefaultEvent \/ last'[3] \in listeners[last'[2]]
      /\ last'[3] \in DOMAIN messageHandlers)
     => \A h \in Members(messageHandlers[last'[3]]) : delivered'[h] = 1]_vars

====
